---- MODULE Spec2Model ----
(***************************************************************************)
(* A model of kickpress' project scaffolding engine                        *)
(* (src/lib/commands/kick/generators.ts): the directory planner            *)
(* createProjectStructure, the content renderers generate*, and the        *)
(* materializer writeProjectFiles, run against a small model of the file   *)
(* system primitives mkdirSync and writeFileSync.                          *)
(*                                                                         *)
(* Paths are relative to projectPath and are sequences of components:      *)
(* join(projectPath, "src", "lib") is <<"src", "lib">>, projectPath itself  *)
(* is <<>>.  A text file body is the sequence of its lines; a body made by *)
(* JSON.stringify is a JSON document holding the serialised value.  In the *)
(* lines of generated code a template literal's backquote is written ' and *)
(* non-ASCII characters are left out.                                      *)
(***************************************************************************)
EXTENDS Naturals, Sequences, FiniteSets, TLC

VARIABLES
  dirs,            \* the directories that exist under (and including) projectPath
  files,           \* the regular files on disk: path -> body
  pc,              \* "idle", or "writing" inside writeProjectFiles
  idx,             \* writeProjectFiles: the next write of the run
  config,          \* the ProjectConfig the caller generates this project from
  packageManager,  \* the packageManager argument of the current/last write run
  lastOp,          \* "none" | "create" | "write": the last function invoked
  thrown,          \* "none", or the error the last invocation threw
  attempted,       \* paths the current write run has called writeFileSync on
  written,         \* paths the current write run has written successfully
  filesAtStart,    \* the files on disk when the last invocation started
  dirsAtStart,     \* the directories when the last invocation started
  created,         \* completed createProjectStructure invocations
  dirsAfterFirst,  \* the directories after the first completed one
  prev,            \* the completed write run before the current one: its pm and output
  calls,           \* invocations so far
  faults,          \* environment faults (EACCES, ENOSPC) injected so far
  mw               \* the generated error middleware under test (SpecMW)

fsVars == <<dirs, files, pc, idx, config, packageManager, lastOp, thrown,
            attempted, written, filesAtStart, dirsAtStart, created,
            dirsAfterFirst, prev, calls, faults>>
vars == <<fsVars, mw>>

\* Bounds of the model.
MaxCalls == 3
MaxFaults == 1

Booleans == {TRUE, FALSE}
PackageManagers == {"npm", "yarn", "pnpm"}
ProjectNames == {"demo-api"}
Databases == {"sqlite"}
Templates == {"default"}

\* interface ProjectConfig (projectPath is the root <<>> of the modelled tree)
ProjectConfig ==
  [projectName : ProjectNames, typescript : Booleans,
   database : Databases, template : Templates]

----------------------------------------------------------------------------
(* Paths and the file system primitives                                    *)

Root == <<>>

\* path.dirname
Dirname(path) == SubSeq(path, 1, Len(path) - 1)

\* a path and all its ancestors, projectPath included
Ancestors(path) == {SubSeq(path, 1, n) : n \in 0..Len(path)}

Range(s) == {s[i] : i \in 1..Len(s)}

IsPrefix(s, t) == Len(s) <= Len(t) /\ SubSeq(t, 1, Len(s)) = s

\* the mutant: mkdirSync that assumes the directory does not exist yet
mkdirSyncNotRecursive(d, path, recursive) ==
  IF path \in d THEN [dirs |-> d, err |-> "EEXIST"]
  ELSE [dirs |-> d \cup Ancestors(path), err |-> "none"]

\* fs.mkdirSync(path, { recursive }): with recursive it creates the missing
\* ancestors and succeeds on an existing directory; without, it fails on an
\* existing directory (EEXIST) and on a missing parent (ENOENT).
mkdirSync(d, path, recursive) ==
  IF recursive
    THEN [dirs |-> d \cup Ancestors(path), err |-> "none"]
    ELSE IF path \in d THEN [dirs |-> d, err |-> "EEXIST"]
    ELSE IF Dirname(path) \notin d THEN [dirs |-> d, err |-> "ENOENT"]
    ELSE [dirs |-> d \cup {path}, err |-> "none"]

\* f with path bound to body
Put(f, path, body) ==
  [p \in DOMAIN f \cup {path} |-> IF p = path THEN body ELSE f[p]]

\* A file body: a text (its lines), or the JSON document that
\* JSON.stringify(value, null, indent) makes and JSON.parse reads back.
Text(lines) == [kind |-> "text", lines |-> lines]
JSONstringify(value, indent) == [kind |-> "json", value |-> value, indent |-> indent]
IsJSON(body) == body.kind = "json"
JSONparse(body) == body.value

\* what an interrupted write leaves of the file: it was opened with O_TRUNC
Truncated == Text(<<>>)

\* the mutant: a write that creates the missing parent directory itself
writeFileSyncMkdirP(d, f, path, body, fault) ==
  IF fault = "EACCES" THEN [dirs |-> d, files |-> f, err |-> "EACCES"]
  ELSE IF fault = "ENOSPC"
    THEN [dirs |-> d \cup Ancestors(Dirname(path)),
          files |-> Put(f, path, Truncated), err |-> "ENOSPC"]
  ELSE [dirs |-> d \cup Ancestors(Dirname(path)),
        files |-> Put(f, path, body), err |-> "none"]

\* fs.writeFileSync(path, body): creates or replaces the file; it never
\* creates a directory and fails with ENOENT when the parent is missing.
\* fault is what the environment does to this write: "none", permission
\* denied (nothing changes) or disk full (the file is left truncated).
writeFileSync(d, f, path, body, fault) ==
  IF Dirname(path) \notin d THEN [dirs |-> d, files |-> f, err |-> "ENOENT"]
  ELSE IF fault = "EACCES" THEN [dirs |-> d, files |-> f, err |-> "EACCES"]
  ELSE IF fault = "ENOSPC"
    THEN [dirs |-> d, files |-> Put(f, path, Truncated), err |-> "ENOSPC"]
  ELSE [dirs |-> d, files |-> Put(f, path, body), err |-> "none"]

----------------------------------------------------------------------------
(* The renderers                                                           *)

\* createProjectStructure's folders with one of them forgotten (the mutant)
foldersWithoutMiddlewares ==
  << <<"src">>, <<"src", "controllers">>, <<"src", "models">>,
     <<"src", "routes">>, <<"src", "config">>,
     <<"src", "utils">>, <<"src", "lib">>, <<"src", "types">>,
     <<"public">>, <<"prisma">>, <<"requests">> >>

\* createProjectStructure: const folders
folders ==
  << <<"src">>, <<"src", "controllers">>, <<"src", "models">>,
     <<"src", "routes">>, <<"src", "middlewares">>, <<"src", "config">>,
     <<"src", "utils">>, <<"src", "lib">>, <<"src", "types">>,
     <<"public">>, <<"prisma">>, <<"requests">> >>

\* generatePackageJson: the dependencies object
dependenciesOf(typescript) ==
  LET base == ("express" :> "^4.18.2") @@ ("express-async-handler" :> "^1.2.0")
              @@ ("@prisma/client" :> "^7.1.0")
              @@ ("@prisma/adapter-better-sqlite3" :> "^7.1.0")
              @@ ("better-sqlite3" :> "^12.5.0") @@ ("dotenv" :> "^17.2.3")
  IN IF typescript THEN base
     ELSE ("@prisma/client-runtime-utils" :> "^7.1.0") @@ base

\* generatePackageJson: the devDependencies object
devDependenciesOf(typescript) ==
  LET base == ("@types/node" :> "^20.10.6") @@ ("@types/express" :> "^4.17.21")
              @@ ("@types/better-sqlite3" :> "^7.6.13") @@ ("prisma" :> "^7.1.0")
  IN IF typescript
       THEN ("typescript" :> "^5.3.3") @@ ("tsx" :> "^4.7.0") @@ base
       ELSE base

\* the scripts every manifest has
dbScripts ==
  ("db:generate" :> "prisma generate") @@ ("db:push" :> "prisma db push")
  @@ ("db:migrate" :> "prisma migrate dev") @@ ("db:studio" :> "prisma studio")

\* the mutant: the TypeScript scripts in both modes
scriptsOfAlwaysTs(typescript) ==
  ("dev" :> "tsx watch --env-file=.env src/index.ts") @@ ("build" :> "tsc")
  @@ ("start" :> "node --env-file=.env dist/index.js") @@ dbScripts

\* generatePackageJson: the scripts object
scriptsOf(typescript) ==
  IF typescript
    THEN ("dev" :> "tsx watch --env-file=.env src/index.ts") @@ ("build" :> "tsc")
         @@ ("start" :> "node --env-file=.env dist/index.js") @@ dbScripts
    ELSE ("dev" :> "node --watch --env-file=.env src/index.js")
         @@ ("start" :> "node --env-file=.env src/index.js") @@ dbScripts

generatePackageJson(cfg) ==
  [name |-> cfg.projectName,
   version |-> "1.0.0",
   type |-> "module",
   main |-> IF cfg.typescript THEN "dist/index.js" ELSE "src/index.js",
   scripts |-> scriptsOf(cfg.typescript),
   dependencies |-> dependenciesOf(cfg.typescript),
   devDependencies |-> devDependenciesOf(cfg.typescript),
   license |-> "MIT"]

\* the lines both entry points share after the imports
indexCommonHead ==
  << "const app = express();",
     "const PORT = process.env.PORT || 3000;",
     "app.use(express.json());",
     "app.use(express.urlencoded({ extended: true }));",
     "app.use(express.static(\"public\"));" >>

indexCommonTail ==
  << "  res.json({ message: \"Welcome to Kickpress!\" });",
     "});",
     "app.use(errorHandler);",
     "app.listen(PORT, () => {",
     "  console.log('Server running on http://localhost:${PORT}');",
     "});" >>

\* generateIndexFile (comment and blank lines left out)
generateIndexFile(typescript) ==
  IF typescript
    THEN Text(<< "import express, { Request, Response } from \"express\";",
                 "import errorHandler from \"./middlewares/error.middleware\";" >>
              \o indexCommonHead
              \o << "app.get(\"/\", (_: Request, res: Response) => {" >>
              \o indexCommonTail)
    ELSE Text(<< "import express from \"express\";",
                 "import errorHandler from \"./middlewares/error.middleware.js\";" >>
              \o indexCommonHead
              \o << "app.get(\"/\", (_, res) => {" >>
              \o indexCommonTail)

\* the response both error handlers send
errorHandlerTail ==
  << "  res.status(statusCode).json({",
     "    message: message,",
     "    stack: process.env.NODE_ENV === \"production\" ? null : err.stack,",
     "  });",
     "};",
     "export default errorHandler;" >>

\* generateErrorMiddleware: the text of the generated module
generateErrorMiddleware(typescript) ==
  IF typescript
    THEN Text(<< "import { Prisma } from \"../lib/generated/prisma/client\";",
                 "import { NextFunction, Request, Response } from \"express\";",
                 "const errorHandler = (",
                 "  err: Error | Prisma.PrismaClientKnownRequestError,",
                 "  req: Request,",
                 "  res: Response,",
                 "  next: NextFunction",
                 ") => {",
                 "  let statusCode = res.statusCode !== 200 ? res.statusCode : 500;",
                 "  let message: string | object = err.message;",
                 "  if (err instanceof Prisma.PrismaClientKnownRequestError) {",
                 "    if (err.code === \"P2002\") {",
                 "      statusCode = 409;",
                 "      message = 'Duplicate field value: ${err.meta?.target}';",
                 "    } else if (err.code === \"P2025\") {",
                 "      statusCode = 404;",
                 "      message = 'Resource not found: ${err.meta?.cause}';",
                 "    }",
                 "  }" >>
              \o errorHandlerTail)
    ELSE Text(<< "const errorHandler = (err, req, res, next) => {",
                 "  let statusCode = res.statusCode !== 200 ? res.statusCode : 500;",
                 "  let message = err.message;",
                 "  if (err.code === \"P2002\") {",
                 "    statusCode = 409;",
                 "    message = 'Duplicate field value: ${err.meta?.target}';",
                 "  } else if (err.code === \"P2025\") {",
                 "    statusCode = 404;",
                 "    message = 'Resource not found: ${err.meta?.cause}';",
                 "  }" >>
              \o errorHandlerTail)

prismaClientTail ==
  << "});",
     "const prisma = new PrismaClient({ adapter });",
     "export default prisma;" >>

generatePrismaClient(typescript) ==
  IF typescript
    THEN Text(<< "import { PrismaClient } from \"./generated/prisma/client\";",
                 "import { PrismaBetterSqlite3 } from \"@prisma/adapter-better-sqlite3\";",
                 "const adapter = new PrismaBetterSqlite3({",
                 "  url: process.env.DATABASE_URL!," >>
              \o prismaClientTail)
    ELSE Text(<< "import { PrismaClient } from \"./generated/prisma/index.js\";",
                 "import { PrismaBetterSqlite3 } from \"@prisma/adapter-better-sqlite3\";",
                 "const adapter = new PrismaBetterSqlite3({",
                 "  url: process.env.DATABASE_URL," >>
              \o prismaClientTail)

generatePrismaSchema ==
  Text(<< "generator client {",
          "  provider = \"prisma-client\"",
          "  output   = \"../src/lib/generated/prisma\"",
          "}",
          "datasource db {",
          "  provider = \"sqlite\"",
          "}" >>)

generatePrismaConfig ==
  Text(<< "import \"dotenv/config\";",
          "import { defineConfig, env } from \"prisma/config\";",
          "export default defineConfig({",
          "  schema: \"prisma/schema.prisma\",",
          "  migrations: {",
          "    path: \"prisma/migrations\",",
          "  },",
          "  datasource: {",
          "    url: env(\"DATABASE_URL\"),",
          "  },",
          "});" >>)

generateTsConfig ==
  JSONstringify(
    [compilerOptions |->
       [target |-> "ES2022", module |-> "ESNext", moduleResolution |-> "bundler",
        outDir |-> "./dist", rootDir |-> "./src", strict |-> TRUE,
        esModuleInterop |-> TRUE, skipLibCheck |-> TRUE,
        forceConsistentCasingInFileNames |-> TRUE, resolveJsonModule |-> TRUE,
        allowSyntheticDefaultImports |-> TRUE,
        paths |-> ("@/*" :> << "./src/*" >>)],
     include |-> << "src/**/*" >>,
     exclude |-> << "node_modules", "dist" >>],
    2)

\* generateEnvFile: the database argument is not used
generateEnvFile(database) ==
  Text(<< "PORT=3000", "NODE_ENV=development", "DATABASE_URL=\"file:./dev.db\"" >>)

generateGitignore ==
  Text(<< "node_modules", ".env", ".env.local", "dist", "*.log", ".DS_Store",
          "# Prisma", "*.db", "*.db-journal", "src/lib/generated/" >>)

\* a template's conditional segment: ${ cond ? lines : "" }
When(cond, lines) == IF cond THEN lines ELSE <<>>

\* generateReadme (blank lines, code fences and the static paragraphs between
\* the headings left out)
generateReadme(projectName, typescript, pm) ==
  LET runCmd == IF pm = "npm" THEN "npm run" ELSE pm
      ext == IF typescript THEN "ts" ELSE "js"
  IN Text(
    << "# " \o projectName,
       "Created with [Kickpress CLI](https://github.com/clebertmarctyson/kickpress)",
       "A production-ready Express.js API with TypeScript, Prisma ORM, and best practices built-in.",
       "## Getting Started" >>
    \o When(pm = "pnpm",
         << "### Important: Approve Native Builds (pnpm only)",
            "Before running the project, you need to approve native dependencies:",
            "pnpm approve-builds",
            "# Select: better-sqlite3 (press space, then enter)",
            "This is a one-time setup required by pnpm for native dependencies.",
            "---" >>)
    \o << "### 1. Install Dependencies",
          IF pm = "pnpm"
            THEN "Dependencies should already be installed. If not, run:"
            ELSE "Install all project dependencies:",
          pm \o " install",
          "### 2. Setup Database",
          "# Generate Prisma Client",
          runCmd \o " db:generate",
          "# Push schema to database",
          runCmd \o " db:push",
          "### 3. Start Development Server",
          runCmd \o " dev",
          "Your API is now running at 'http://localhost:3000'!",
          "## Available Commands",
          "### Development",
          "- '" \o runCmd \o " dev' - Start development server with hot reload" >>
    \o (IF typescript
          THEN << "### Build",
                  "- '" \o runCmd \o " build' - Compile TypeScript to JavaScript",
                  "- '" \o runCmd \o " start' - Start production server" >>
          ELSE << "### Production",
                  "- '" \o runCmd \o " start' - Start production server" >>)
    \o << "### Database Management",
          "- '" \o runCmd \o " db:generate' - Generate Prisma Client",
          "- '" \o runCmd \o " db:push' - Push schema changes to database",
          "- '" \o runCmd \o " db:migrate' - Create a new migration",
          "- '" \o runCmd \o " db:studio' - Open Prisma Studio (database GUI)",
          "## Generate Resources",
          "npx kickpress make user resources",
          "## Project Structure",
          projectName \o "/",
          "src/",
          "  index." \o ext \o "           # Main entry point",
          "  lib/",
          "    prisma." \o ext \o "      # Prisma client",
          "  controllers/                  # Request handlers",
          "  models/                       # Database operations",
          "  routes/                       # Express routes" >>
    \o When(typescript, << "  types/                        # TypeScript types" >>)
    \o << "  middlewares/",
          "    error.middleware." \o ext,
          "  config/                       # Configuration",
          "  utils/                        # Utilities",
          "prisma/",
          "  schema.prisma                 # Database schema",
          "  migrations/                   # Database migrations",
          "requests/                         # HTTP test files",
          ".env                              # Environment variables" >>
    \o When(typescript, << "tsconfig.json                     # TypeScript config" >>)
    \o << "package.json",
          "## Testing Your API",
          "## Environment Variables",
          "## Technology Stack",
          "- **Express.js** - Fast, minimalist web framework" >>
    \o When(typescript, << "- **TypeScript** - Type-safe JavaScript" >>)
    \o When(typescript, << "- **tsx** - TypeScript execution engine" >>)
    \o << "- **Prisma** - Next-generation ORM",
          "- **SQLite** - Default database (easily swappable)",
          "- **express-async-handler** - Async error handling",
          "## Learn More",
          "- [Kickpress Documentation](https://github.com/clebertmarctyson/kickpress#readme)",
          "- [Express.js Docs](https://expressjs.com/)",
          "- [Prisma Docs](https://www.prisma.io/docs)" >>
    \o When(typescript, << "- [TypeScript Docs](https://www.typescriptlang.org/)" >>)
    \o << "## Troubleshooting",
          "### Port already in use",
          "PORT=3001",
          "### Prisma Client errors",
          runCmd \o " db:generate" >>
    \o When(pm = "pnpm",
         << "### Module not found errors (pnpm)",
            "Make sure you've approved native builds:",
            "pnpm approve-builds",
            "# Select: better-sqlite3" >>)
    \o << "## Support",
          "Made with  and  by [Marc Tyson CLEBERT](https://www.marctysonclebert.com)" >>)

----------------------------------------------------------------------------
(* The generated error middleware, as the code it is: what errorHandler    *)
(* does with an error err, a response whose status is statusCode, and      *)
(* process.env.NODE_ENV.                                                   *)

Undefined == "undefined"
Null == "null"

\* err.meta?.field inside a template literal: a missing meta or field
\* prints as "undefined"
MetaField(err, field) ==
  IF err.meta.present THEN err.meta[field] ELSE Undefined

\* res.status(statusCode).json({ message, stack })
Respond(statusCode, message, err, nodeEnv) ==
  [sent |-> TRUE, statusCode |-> statusCode, message |-> message,
   stack |-> IF nodeEnv = "production" THEN Null ELSE err.stack]

NoResponse == [sent |-> FALSE]

\* the TypeScript variant: the code is looked at only for an instance of
\* Prisma.PrismaClientKnownRequestError
errorHandlerTs(err, statusCode, nodeEnv) ==
  LET fallback == IF statusCode # 200 THEN statusCode ELSE 500
  IN IF err.class = "PrismaClientKnownRequestError" /\ err.code = "P2002"
       THEN Respond(409, "Duplicate field value: " \o MetaField(err, "target"),
                    err, nodeEnv)
     ELSE IF err.class = "PrismaClientKnownRequestError" /\ err.code = "P2025"
       THEN Respond(404, "Resource not found: " \o MetaField(err, "cause"),
                    err, nodeEnv)
     ELSE Respond(fallback, err.message, err, nodeEnv)

\* the JavaScript variant: the code of any error is looked at
errorHandlerJs(err, statusCode, nodeEnv) ==
  LET fallback == IF statusCode # 200 THEN statusCode ELSE 500
  IN IF err.code = "P2002"
       THEN Respond(409, "Duplicate field value: " \o MetaField(err, "target"),
                    err, nodeEnv)
     ELSE IF err.code = "P2025"
       THEN Respond(404, "Resource not found: " \o MetaField(err, "cause"),
                    err, nodeEnv)
     ELSE Respond(fallback, err.message, err, nodeEnv)

----------------------------------------------------------------------------
(* createProjectStructure                                                  *)

\* folders.forEach(folder => mkdirSync(join(projectPath, folder),
\* { recursive: true })) from the i-th folder on; the first error ends the
\* loop and is thrown.  faultAt is the folder at which the environment
\* denies permission (0: nowhere).
RECURSIVE MkdirFrom(_, _, _)
MkdirFrom(d, i, faultAt) ==
  IF i > Len(folders) THEN [dirs |-> d, err |-> "none"]
  ELSE IF i = faultAt THEN [dirs |-> d, err |-> "EACCES"]
  ELSE LET r == mkdirSync(d, folders[i], TRUE)
       IN IF r.err # "none" THEN r ELSE MkdirFrom(r.dirs, i + 1, faultAt)

createProjectStructure(d, faultAt) == MkdirFrom(d, 1, faultAt)

----------------------------------------------------------------------------
(* writeProjectFiles                                                       *)

Write(path, body) == [path |-> path, body |-> body]

\* the mutant: tsconfig.json written in both language modes
WritePlanTsconfigAlways(cfg, pm) ==
  LET typescript == cfg.typescript
      extension == IF typescript THEN "ts" ELSE "js"
  IN << Write(<<"package.json">>, JSONstringify(generatePackageJson(cfg), 2)),
        Write(<<"src", "index." \o extension>>, generateIndexFile(typescript)),
        Write(<<"src", "lib", "prisma." \o extension>>,
              generatePrismaClient(typescript)),
        Write(<<"src", "middlewares", "error.middleware." \o extension>>,
              generateErrorMiddleware(typescript)),
        Write(<<"prisma", "schema.prisma">>, generatePrismaSchema),
        Write(<<"prisma.config.ts">>, generatePrismaConfig) >>
     \o << Write(<<"tsconfig.json">>, generateTsConfig) >>
     \o << Write(<<".env">>, generateEnvFile(cfg.database)),
           Write(<<".gitignore">>, generateGitignore),
           Write(<<"README.md">>,
                 generateReadme(cfg.projectName, typescript, pm)) >>

\* the mutant: the environment file written before the Prisma files
WritePlanEnvBeforeSchema(cfg, pm) ==
  LET typescript == cfg.typescript
      extension == IF typescript THEN "ts" ELSE "js"
  IN << Write(<<"package.json">>, JSONstringify(generatePackageJson(cfg), 2)),
        Write(<<"src", "index." \o extension>>, generateIndexFile(typescript)),
        Write(<<"src", "lib", "prisma." \o extension>>,
              generatePrismaClient(typescript)),
        Write(<<"src", "middlewares", "error.middleware." \o extension>>,
              generateErrorMiddleware(typescript)),
        Write(<<".env">>, generateEnvFile(cfg.database)),
        Write(<<"prisma", "schema.prisma">>, generatePrismaSchema),
        Write(<<"prisma.config.ts">>, generatePrismaConfig) >>
     \o When(typescript, << Write(<<"tsconfig.json">>, generateTsConfig) >>)
     \o << Write(<<".gitignore">>, generateGitignore),
           Write(<<"README.md">>,
                 generateReadme(cfg.projectName, typescript, pm)) >>

\* the mutant: the manifest names the package manager
WritePlanPmInManifest(cfg, pm) ==
  LET typescript == cfg.typescript
      extension == IF typescript THEN "ts" ELSE "js"
  IN << Write(<<"package.json">>, JSONstringify([manifest |-> generatePackageJson(cfg), packageManager |-> pm], 2)),
        Write(<<"src", "index." \o extension>>, generateIndexFile(typescript)),
        Write(<<"src", "lib", "prisma." \o extension>>,
              generatePrismaClient(typescript)),
        Write(<<"src", "middlewares", "error.middleware." \o extension>>,
              generateErrorMiddleware(typescript)),
        Write(<<"prisma", "schema.prisma">>, generatePrismaSchema),
        Write(<<"prisma.config.ts">>, generatePrismaConfig) >>
     \o When(typescript, << Write(<<"tsconfig.json">>, generateTsConfig) >>)
     \o << Write(<<".env">>, generateEnvFile(cfg.database)),
           Write(<<".gitignore">>, generateGitignore),
           Write(<<"README.md">>,
                 generateReadme(cfg.projectName, typescript, pm)) >>

\* the writeFileSync calls of writeProjectFiles, in statement order
WritePlan(cfg, pm) ==
  LET typescript == cfg.typescript
      extension == IF typescript THEN "ts" ELSE "js"
  IN << Write(<<"package.json">>, JSONstringify(generatePackageJson(cfg), 2)),
        Write(<<"src", "index." \o extension>>, generateIndexFile(typescript)),
        Write(<<"src", "lib", "prisma." \o extension>>,
              generatePrismaClient(typescript)),
        Write(<<"src", "middlewares", "error.middleware." \o extension>>,
              generateErrorMiddleware(typescript)),
        Write(<<"prisma", "schema.prisma">>, generatePrismaSchema),
        Write(<<"prisma.config.ts">>, generatePrismaConfig) >>
     \o When(typescript, << Write(<<"tsconfig.json">>, generateTsConfig) >>)
     \o << Write(<<".env">>, generateEnvFile(cfg.database)),
           Write(<<".gitignore">>, generateGitignore),
           Write(<<"README.md">>,
                 generateReadme(cfg.projectName, typescript, pm)) >>

\* WritePlan of every input
WritePlans ==
  [cfg \in ProjectConfig, pm \in PackageManagers |-> WritePlan(cfg, pm)]

\* the mutant: a failed write is swallowed and the run goes on
AfterWriteSwallow(err, i, n) == IF i = n THEN "idle" ELSE "writing"

\* Where control goes after the i-th of n writes ended with err: an error
\* is not caught, so it leaves writeProjectFiles; otherwise the next
\* statement runs, and the function returns after the last one.
AfterWrite(err, i, n) ==
  IF err # "none" THEN "idle" ELSE IF i = n THEN "idle" ELSE "writing"

----------------------------------------------------------------------------
(* The state machine: a caller that invokes the two exported functions     *)

Faults == {"EACCES", "ENOSPC"}

NoRun == [pm |-> "", out |-> <<>>]
NoFiles == <<>>

AllFolders == UNION {Ancestors(folders[i]) : i \in 1..Len(folders)}

KeepFile == (<<"src", "lib", "keep.txt">> :> Text(<<"keep">>))
OldReadme == (<<"README.md">> :> Text(<<"# old">>))

\* the destinations a run may start on: missing, empty, partly or fully
\* laid out, with or without files of an earlier project
Destinations ==
  { [dirs |-> {}, files |-> NoFiles],
    [dirs |-> {Root}, files |-> NoFiles],
    [dirs |-> {Root, <<"src">>, <<"src", "lib">>}, files |-> KeepFile],
    [dirs |-> AllFolders, files |-> KeepFile @@ OldReadme] }

NoMw == [phase |-> "off"]

InitFs(dest, cfg) ==
  /\ dirs = dest.dirs
  /\ files = dest.files
  /\ pc = "idle"
  /\ idx = 0
  /\ config = cfg
  /\ packageManager = ""
  /\ lastOp = "none"
  /\ thrown = "none"
  /\ attempted = <<>>
  /\ written = <<>>
  /\ filesAtStart = dest.files
  /\ dirsAtStart = dest.dirs
  /\ created = 0
  /\ dirsAfterFirst = {}
  /\ prev = NoRun
  /\ calls = 0
  /\ faults = 0

Init ==
  /\ \E dest \in Destinations, cfg \in ProjectConfig : InitFs(dest, cfg)
  /\ mw = NoMw

\* createProjectStructure(projectPath), from call to return or throw
CreateProjectStructure ==
  /\ pc = "idle"
  /\ calls < MaxCalls
  /\ \E faultAt \in 0..Len(folders) :
       /\ faultAt > 0 => faults < MaxFaults
       /\ LET r == createProjectStructure(dirs, faultAt)
          IN /\ dirs' = r.dirs
             /\ thrown' = r.err
             /\ created' = IF r.err = "none" THEN created + 1 ELSE created
             /\ dirsAfterFirst' =
                  IF r.err = "none" /\ created = 0 THEN r.dirs ELSE dirsAfterFirst
             /\ faults' = IF r.err = "EACCES" THEN faults + 1 ELSE faults
  /\ lastOp' = "create"
  /\ filesAtStart' = files
  /\ dirsAtStart' = dirs
  /\ calls' = calls + 1
  /\ UNCHANGED <<files, pc, idx, config, packageManager, attempted, written, prev, mw>>

\* writeProjectFiles(config, packageManager) is called
CallWriteProjectFiles ==
  /\ pc = "idle"
  /\ calls < MaxCalls
  /\ \E pm \in PackageManagers : packageManager' = pm
  /\ pc' = "writing"
  /\ idx' = 1
  /\ attempted' = <<>>
  /\ written' = <<>>
  /\ thrown' = "none"
  /\ lastOp' = "write"
  /\ filesAtStart' = files
  /\ dirsAtStart' = dirs
  /\ calls' = calls + 1
  /\ prev' = IF packageManager # ""
                   /\ Len(written) = Len(WritePlans[config, packageManager])
                THEN [pm |-> packageManager, out |-> [p \in Range(written) |-> files[p]]]
                ELSE prev
  /\ UNCHANGED <<dirs, files, config, created, dirsAfterFirst, faults, mw>>

\* the next writeFileSync statement of writeProjectFiles runs
WriteNext ==
  /\ pc = "writing"
  /\ \E fault \in {"none"} \cup Faults :
       /\ fault # "none" => faults < MaxFaults
       /\ LET plan == WritePlans[config, packageManager]
              w == plan[idx]
              r == writeFileSync(dirs, files, w.path, w.body, fault)
              to == AfterWrite(r.err, idx, Len(plan))
          IN /\ dirs' = r.dirs
             /\ files' = r.files
             /\ attempted' = Append(attempted, w.path)
             /\ written' = IF r.err = "none" THEN Append(written, w.path) ELSE written
             /\ thrown' = IF thrown = "none" THEN r.err ELSE thrown
             /\ pc' = to
             /\ idx' = IF to = "writing" THEN idx + 1 ELSE idx
             /\ faults' = IF r.err \in Faults THEN faults + 1 ELSE faults
  /\ UNCHANGED <<config, packageManager, lastOp, filesAtStart, dirsAtStart,
                 created, dirsAfterFirst, prev, calls, mw>>

Next == CreateProjectStructure \/ CallWriteProjectFiles \/ WriteNext

Spec == Init /\ [][Next]_vars

----------------------------------------------------------------------------
(* The generated middleware at work: an error reaches errorHandler in a    *)
(* TypeScript project and in a JavaScript project generated side by side.  *)

ErrorClasses == {"PrismaClientKnownRequestError", "Error"}
ErrorCodes == {"P2002", "P2025", "P2003", Undefined}
Metas ==
  { [present |-> FALSE],
    [present |-> TRUE, target |-> "email", cause |-> "Record to update not found."],
    [present |-> TRUE, target |-> Undefined, cause |-> Undefined] }
ThrownErrors ==
  [class : ErrorClasses, code : ErrorCodes, meta : Metas,
   message : {"Something failed"}, stack : {"Error: Something failed at handler"}]
StatusCodes == {200, 400, 404, 500}
NodeEnvs == {"production", "development", Undefined}

InitMW ==
  /\ InitFs([dirs |-> {Root}, files |-> NoFiles],
            [projectName |-> "demo-api", typescript |-> TRUE,
             database |-> "sqlite", template |-> "default"])
  /\ \E err \in ThrownErrors, statusCode \in StatusCodes, nodeEnv \in NodeEnvs :
       mw = [phase |-> "thrown", err |-> err, statusCode |-> statusCode,
             nodeEnv |-> nodeEnv, ts |-> NoResponse, js |-> NoResponse]

\* the TypeScript project's errorHandler handles the error
HandleTs ==
  /\ mw.phase = "thrown"
  /\ ~mw.ts.sent
  /\ mw' = [mw EXCEPT !.ts = errorHandlerTs(mw.err, mw.statusCode, mw.nodeEnv)]
  /\ UNCHANGED fsVars

\* the JavaScript project's errorHandler handles the error
HandleJs ==
  /\ mw.phase = "thrown"
  /\ ~mw.js.sent
  /\ mw' = [mw EXCEPT !.js = errorHandlerJs(mw.err, mw.statusCode, mw.nodeEnv)]
  /\ UNCHANGED fsVars

NextMW == HandleTs \/ HandleJs

SpecMW == InitMW /\ [][NextMW]_vars

----------------------------------------------------------------------------
(* The claims                                                              *)

Ext(typescript) == IF typescript THEN "ts" ELSE "js"

\* the last invocation was writeProjectFiles and it returned normally
RunDone == lastOp = "write" /\ pc = "idle" /\ thrown = "none"

\* the body the current run writes to path
PlannedBody(path) ==
  LET plan == WritePlans[config, packageManager]
  IN plan[CHOOSE i \in 1..Len(plan) : plan[i].path = path].body

ExpectedFiles(typescript) ==
  { <<"package.json">>,
    <<"src", "index." \o Ext(typescript)>>,
    <<"src", "lib", "prisma." \o Ext(typescript)>>,
    <<"src", "middlewares", "error.middleware." \o Ext(typescript)>>,
    <<"prisma", "schema.prisma">>,
    <<"prisma.config.ts">>,
    <<".env">>, <<".gitignore">>, <<"README.md">> }
  \cup (IF typescript THEN { <<"tsconfig.json">> } ELSE {})

\* C1: after writeProjectFiles returns normally, the files the run has
\* written are exactly package.json, src/index.E, src/lib/prisma.E,
\* src/middlewares/error.middleware.E, prisma/schema.prisma,
\* prisma.config.ts, .env, .gitignore and README.md, plus tsconfig.json if
\* and only if typescript is true, each written once; on a destination
\* that held no file these are all the files there are.
C1_ExactFileSet ==
  RunDone =>
    /\ Range(written) = ExpectedFiles(config.typescript)
    /\ Len(written) = Cardinality(ExpectedFiles(config.typescript))
    /\ DOMAIN files = DOMAIN filesAtStart \cup ExpectedFiles(config.typescript)
    /\ (<<"tsconfig.json">> \in Range(written)) <=> config.typescript

C1_Witness ==
  /\ RunDone
  /\ DOMAIN filesAtStart = {}
  /\ ~config.typescript
  /\ <<"prisma.config.ts">> \in DOMAIN files

\* C2 as stated: a run of writeProjectFiles itself creates the fixed
\* directory structure, and has done so before its first write into one of
\* those directories.
C2_MaterializerCreatesDirs ==
  (lastOp = "write" /\ \E p \in Range(attempted) : Dirname(p) # Root)
    => Range(folders) \subseteq dirs

\* C2 as amended: writeProjectFiles creates no directory; every write of a
\* run that succeeds goes into a directory that existed when the run
\* started, and a write into a missing directory fails with ENOENT and
\* leaves the directory missing.
C2_WritesNeedExistingDirs ==
  lastOp = "write" =>
    /\ dirs = dirsAtStart
    /\ \A p \in Range(written) : Dirname(p) \in dirsAtStart
    /\ thrown = "ENOENT" => Dirname(attempted[Len(attempted)]) \notin dirs

C2_Witness ==
  /\ lastOp = "write"
  /\ created = 1
  /\ <<"src", "lib", "prisma.ts">> \in Range(written)
  /\ DOMAIN filesAtStart = {}

ExpectedOrder(typescript) ==
  << <<"package.json">>,
     <<"src", "index." \o Ext(typescript)>>,
     <<"src", "lib", "prisma." \o Ext(typescript)>>,
     <<"src", "middlewares", "error.middleware." \o Ext(typescript)>>,
     <<"prisma", "schema.prisma">>,
     <<"prisma.config.ts">> >>
  \o (IF typescript THEN << <<"tsconfig.json">> >> ELSE << >>)
  \o << <<".env">>, <<".gitignore">>, <<"README.md">> >>

\* C3: in every run of writeProjectFiles the writes are made one at a time
\* in the order package.json, src/index.E, src/lib/prisma.E, the error
\* middleware, prisma/schema.prisma, prisma.config.ts, tsconfig.json (only
\* when typescript is true), .env, .gitignore, README.md; a write is made
\* only when all the earlier ones have succeeded.
C3_FixedOrder ==
  lastOp = "write" =>
    /\ IsPrefix(attempted, ExpectedOrder(config.typescript))
    /\ IsPrefix(written, attempted)
    /\ pc = "writing" => (written = attempted /\ Len(attempted) = idx - 1)
    /\ RunDone => written = ExpectedOrder(config.typescript)

C3_Witness ==
  /\ RunDone
  /\ config.typescript
  /\ written[7] = <<"tsconfig.json">>

\* C4: when a write inside writeProjectFiles fails, the error reaches the
\* caller and the run stops there: the failed write is the last one
\* attempted, no later file of the sequence is touched, and every file the
\* run wrote before still holds what the run wrote.
C4_FailureStopsRun ==
  (lastOp = "write" /\ thrown # "none") =>
    /\ pc = "idle"
    /\ Len(attempted) = Len(written) + 1
    /\ IsPrefix(written, attempted)
    /\ \A p \in Range(written) : p \in DOMAIN files /\ files[p] = PlannedBody(p)
    /\ \A p \in ExpectedFiles(config.typescript) \ Range(attempted) :
         IF p \in DOMAIN filesAtStart
           THEN p \in DOMAIN files /\ files[p] = filesAtStart[p]
           ELSE p \notin DOMAIN files

C4_Witness ==
  /\ lastOp = "write"
  /\ thrown = "ENOSPC"
  /\ Len(written) = 4
  /\ <<"README.md">> \in DOMAIN filesAtStart

\* the parent directories of all paths writeProjectFiles may write
PlanParents ==
  UNION { { Dirname(WritePlans[cfg, pm][i].path) : i \in 1..Len(WritePlans[cfg, pm]) } :
          cfg \in ProjectConfig, pm \in PackageManagers }

\* C5: the directory plan is total: the parent of every path that
\* writeProjectFiles writes, in either language mode, is projectPath itself
\* or one of createProjectStructure's folders, so once
\* createProjectStructure has completed on the destination no write of
\* writeProjectFiles finds its directory missing.
C5_PlanTotal ==
  /\ PlanParents \subseteq {Root} \cup Range(folders)
  /\ (lastOp = "write" /\ created >= 1) => thrown # "ENOENT"

C5_Witness ==
  /\ RunDone
  /\ created >= 1
  /\ DOMAIN filesAtStart = {}
  /\ <<"src", "middlewares", "error.middleware.js">> \in DOMAIN files

\* C6: the manifest and the written source files agree: with typescript
\* the entry point, the client wrapper and the error middleware are written
\* as .ts, the dev script runs src/index.ts, there is a build script and
\* main is dist/index.js; without, the three are written as .js, the dev and
\* start scripts run src/index.js, there is no build script and main is
\* src/index.js.
C6_ManifestAgrees ==
  RunDone =>
    LET m == JSONparse(files[<<"package.json">>])
        entry == "src/index." \o Ext(config.typescript)
        sources(e) == { <<"src", "index." \o e>>, <<"src", "lib", "prisma." \o e>>,
                        <<"src", "middlewares", "error.middleware." \o e>> }
    IN /\ IsJSON(files[<<"package.json">>])
       /\ sources(Ext(config.typescript)) \subseteq Range(written)
       /\ sources(Ext(~config.typescript)) \cap Range(written) = {}
       /\ IF config.typescript
            THEN /\ m.scripts["dev"] = "tsx watch --env-file=.env " \o entry
                 /\ "build" \in DOMAIN m.scripts
                 /\ m.main = "dist/index.js"
            ELSE /\ m.scripts["dev"] = "node --watch --env-file=.env " \o entry
                 /\ m.scripts["start"] = "node --env-file=.env " \o entry
                 /\ "build" \notin DOMAIN m.scripts
                 /\ m.main = entry

C6_Witness ==
  /\ RunDone
  /\ ~config.typescript
  /\ packageManager = "yarn"
  /\ JSONparse(files[<<"package.json">>]).main = "src/index.js"

\* C7: for one ProjectConfig, two runs of writeProjectFiles with any two
\* packageManager values write the same set of paths and the same content
\* to every file other than README.md.
C7_OnlyReadmeDependsOnPm ==
  (RunDone /\ prev.pm # "") =>
    /\ DOMAIN prev.out = Range(written)
    /\ \A p \in Range(written) \ { <<"README.md">> } : files[p] = prev.out[p]

C7_Witness ==
  /\ RunDone
  /\ prev.pm = "pnpm"
  /\ packageManager = "npm"
  /\ files[<<"README.md">>] # prev.out[<<"README.md">>]

TypePackages == {"@types/node", "@types/express", "@types/better-sqlite3"}

\* C8: the written manifest holds the type-checking engine (typescript) and
\* the type-definition packages (@types/*) only when typescript is true,
\* and the runtime adapter @prisma/client-runtime-utils only when it is
\* false.
C8_TypesOnlyInTsMode ==
  RunDone =>
    LET m == JSONparse(files[<<"package.json">>])
        packages == DOMAIN m.dependencies \cup DOMAIN m.devDependencies
    IN /\ "typescript" \in packages => config.typescript
       /\ TypePackages \cap packages # {} => config.typescript
       /\ "@prisma/client-runtime-utils" \in packages => ~config.typescript

\* C9: the TypeScript and the JavaScript error middleware answer every
\* error alike: 409 and the duplicate-field message for code P2002, 404 and
\* the not-found message for code P2025, otherwise the response's status
\* (500 when it is still 200) and the error's message, whatever the class
\* of the error; the stack is null exactly in production.
C9_SameBehaviour ==
  (mw.phase = "thrown" /\ mw.ts.sent /\ mw.js.sent) =>
    /\ mw.ts = mw.js
    /\ \A r \in {mw.ts, mw.js} :
         /\ r.stack = Null <=> mw.nodeEnv = "production"
         /\ IF mw.err.code = "P2002"
              THEN /\ r.statusCode = 409
                   /\ r.message = "Duplicate field value: " \o MetaField(mw.err, "target")
            ELSE IF mw.err.code = "P2025"
              THEN /\ r.statusCode = 404
                   /\ r.message = "Resource not found: " \o MetaField(mw.err, "cause")
            ELSE /\ r.statusCode = (IF mw.statusCode = 200 THEN 500 ELSE mw.statusCode)
                 /\ r.message = mw.err.message

\* C10: createProjectStructure is idempotent: existing directories never
\* make it fail, it leaves every file as it was, and once it has completed
\* all twelve folders exist and any later invocation leaves the set of
\* directories exactly as the first completed one left it.
C10_Idempotent ==
  /\ lastOp = "create" =>
       /\ thrown \in {"none", "EACCES"}
       /\ files = filesAtStart
       /\ dirsAtStart \subseteq dirs
  /\ created >= 1 =>
       /\ Range(folders) \subseteq dirs
       /\ Cardinality(Range(folders)) = 12
       /\ dirs = dirsAfterFirst

C10_Witness ==
  /\ lastOp = "create"
  /\ thrown = "none"
  /\ created >= 2
  /\ <<"src", "lib", "keep.txt">> \in DOMAIN files
  /\ dirsAtStart = dirs

====
